---- MODULE Spec2Model ----
(***************************************************************************)
(* A model of admin/aws.py: the intents of the effectful interface to      *)
(* boto, the performers of boto_dispatcher acting on a remote S3 store,    *)
(* and FakeAWS, whose performers replace an immutable FakeAWSState.        *)
(*                                                                         *)
(* Python byte/unicode strings are TLA+ strings; a Python dict or PMap is  *)
(* a function whose DOMAIN is the set of keys present.  FakeAWSState       *)
(* instances live in a heap of objects, so that holding a reference to an  *)
(* instance and replacing FakeAWS.state are different things.              *)
(***************************************************************************)
EXTENDS Integers, Sequences, FiniteSets, TLC

VARIABLES
    dispatcher,     \* the TypeDispatcher the caller performs intents with
    heap,           \* FakeAWSState instances, by object identity
    state,          \* FakeAWS.state: a reference into heap
    initial_state,  \* FakeAWS.initial_state: a reference into heap
    s3,             \* the remote S3 store boto talks to
    website,        \* the remote website configuration of the buckets and
                    \* the number of times it was persisted
    files,          \* the local filesystem: path -> content
    pc,             \* position of the running generator performer
    frame,          \* local variables of the running generator performer
    last,           \* type, outcome and result of the last intent performed
    uploaded,       \* history: content stored by UploadToS3 and not yet
                    \* deleted or overwritten, per (bucket, key)
    steps           \* number of intents performed

vars == <<dispatcher, heap, state, initial_state, s3, website, files, pc,
          frame, last, uploaded, steps>>

-----------------------------------------------------------------------------
(* Bounds of the model *)

\* number of intents the caller performs in one run
MaxSteps == 2
\* length of the key list of a DeleteS3Keys / CopyS3Keys intent
MaxKeys == 2

-----------------------------------------------------------------------------
(* Values *)

None == "None"
NoFile == "<no such file>"
\* what a failed transfer leaves in a file opened with 'w'
Truncated == ""

Buckets == {"b1", "b2"}
Prefixes == {"", "a"}
KeyArgs == {".js", "a.js"}
FullKeys == {p \o k : p \in Prefixes, k \in KeyArgs}
\* "c1" is ASCII text, "c2" holds a non-ASCII byte
Contents == {"c1", "c2"}
NonAscii == {"c2"}
ContentTypes == {"text/html"}
Rules == {"r1", "r2"}
Paths == {"f1", "f3"}
TargetPaths == {"f3"}
\* the path FilePath.temporarySibling() makes up: a fresh name
TempPath == "tmp"
Ids == {0, 1, 2}

EmptyMap == [x \in {} |-> x]

Range(q) == {q[i] : i \in 1..Len(q)}

\* the lists of at most n distinct elements of S
RECURSIVE ListsUpTo(_, _)
ListsUpTo(S, n) ==
    IF n = 0 THEN {<< >>}
    ELSE LET shorter == ListsUpTo(S, n - 1)
         IN  shorter \cup
             {Append(q, x) : <<q, x>> \in
                 {qx \in shorter \X S : qx[2] \notin Range(qx[1])}}

KeyLists == ListsUpTo(KeyArgs, MaxKeys)

startswith(s, p) == Len(p) <= Len(s) /\ SubSeq(s, 1, Len(p)) = p

endswith(s, e) ==
    Len(e) <= Len(s) /\ SubSeq(s, Len(s) - Len(e) + 1, Len(s)) = e

\* s[n:]
SliceFrom(s, n) == SubSeq(s, n + 1, Len(s))

PrefixesOf(s) == {SubSeq(s, 1, n) : n \in 0..Len(s)}

\* every plain string prefix of some key
ListPrefixes == UNION {PrefixesOf(k) : k \in FullKeys}
\* the prefixes the caller lists with
ListArgs == {"", "a", "a.js"}

\* dict / PMap operations
HasKey(m, k) == k \in DOMAIN m
Put(m, k, v) == [x \in DOMAIN m \cup {k} |-> IF x = k THEN v ELSE m[x]]
Discard(m, k) == [x \in DOMAIN m \ {k} |-> m[x]]
GetOr(m, k, d) == IF k \in DOMAIN m THEN m[k] ELSE d

-----------------------------------------------------------------------------
(* Intents *)

UpdateS3RoutingRules ==
    {[type |-> "UpdateS3RoutingRules", bucket |-> b, routing_rules |-> r] :
        b \in Buckets, r \in Rules}

UpdateS3ErrorPage ==
    {[type |-> "UpdateS3ErrorPage", bucket |-> b, target_prefix |-> p] :
        b \in Buckets, p \in Prefixes}

\* UpdateS3ErrorPage.error_key
error_key(intent) == intent.target_prefix \o "error_pages/404.html"

CreateCloudFrontInvalidation ==
    {[type |-> "CreateCloudFrontInvalidation", cname |-> "docs.example",
      paths |-> ps] : ps \in {<<"/x">>, <<"/y">>}}

DeleteS3Keys ==
    {[type |-> "DeleteS3Keys", bucket |-> b, prefix |-> p, keys |-> ks] :
        b \in Buckets, p \in Prefixes, ks \in KeyLists}

CopyS3Keys ==
    {[type |-> "CopyS3Keys", source_bucket |-> sb, source_prefix |-> sp,
      destination_bucket |-> db, destination_prefix |-> dp, keys |-> ks] :
        sb \in Buckets, sp \in Prefixes, db \in Buckets, dp \in Prefixes,
        ks \in KeyLists}

ListS3Keys ==
    {[type |-> "ListS3Keys", bucket |-> b, prefix |-> p] :
        b \in Buckets, p \in ListArgs}

DownloadS3Key ==
    {[type |-> "DownloadS3Key", source_bucket |-> b, source_key |-> k,
      target_path |-> t] : b \in Buckets, k \in FullKeys, t \in TargetPaths}

ReadS3Key ==
    {[type |-> "ReadS3Key", source_bucket |-> b, source_key |-> k] :
        b \in Buckets, k \in KeyArgs}

UploadToS3 ==
    {[type |-> "UploadToS3", target_bucket |-> b, target_key |-> k,
      file |-> f, content_type |-> t] :
        b \in Buckets, k \in KeyArgs, f \in Paths,
        t \in ContentTypes \cup {None}}

EXTENSION_MIME_TYPES ==
    [x \in {".eot", ".gif", ".html", ".jpg", ".js", ".css", ".png", ".sh",
            ".svg", ".ttf", ".txt", ".woff", ".yml"} |->
        CASE x = ".eot" -> "application/vnd.ms-fontobject"
          [] x = ".gif" -> "image/gif"
          [] x = ".html" -> "text/html"
          [] x = ".jpg" -> "image/jpeg"
          [] x = ".js" -> "application/javascript"
          [] x = ".css" -> "text/css"
          [] x = ".png" -> "image/png"
          [] x = ".sh" -> "text/plain"
          [] x = ".svg" -> "image/svg+xml"
          [] x = ".ttf" -> "application/x-font-ttf"
          [] x = ".txt" -> "text/plain"
          [] x = ".woff" -> "application/font-woff"
          [] x = ".yml" -> "text/plain"]

-----------------------------------------------------------------------------
(* Dispatchers: intent type -> performer *)

boto_dispatcher ==
    [UpdateS3RoutingRules |-> "perform_update_s3_routing_rules",
     UpdateS3ErrorPage |-> "perform_update_s3_error_page",
     ListS3Keys |-> "perform_list_s3_keys",
     DeleteS3Keys |-> "perform_delete_s3_keys",
     CopyS3Keys |-> "perform_copy_s3_keys",
     DownloadS3KeyRecursively |-> "perform_download_s3_key_recursively",
     DownloadS3Key |-> "perform_download_s3_key",
     ReadS3Key |-> "perform_read_s3_key",
     UploadToS3Recursively |-> "perform_upload_s3_key_recursively",
     UploadToS3 |-> "perform_upload_s3_key",
     CreateCloudFrontInvalidation |-> "perform_create_cloudfront_invalidation"]

get_dispatcher ==
    [DownloadS3KeyRecursively |-> "perform_download_s3_key_recursively",
     UploadToS3Recursively |-> "perform_upload_s3_key_recursively",
     ReadS3Key |-> "perform_read_s3_key",
     UpdateS3RoutingRules |-> "FakeAWS._perform_update_s3_routing_rules",
     UpdateS3ErrorPage |-> "FakeAWS._perform_update_s3_error_page",
     ListS3Keys |-> "FakeAWS._perform_list_s3_keys",
     DeleteS3Keys |-> "FakeAWS._perform_delete_s3_keys",
     CopyS3Keys |-> "FakeAWS._perform_copy_s3_keys",
     DownloadS3Key |-> "FakeAWS._perform_download_s3_key",
     UploadToS3 |-> "FakeAWS._perform_upload_s3_key",
     CreateCloudFrontInvalidation |->
         "FakeAWS._perform_create_cloudfront_invalidation"]

\* TypeDispatcher lookup: the performer registered for the intent's type
Performer(d, intent) ==
    IF intent.type \in DOMAIN d THEN d[intent.type] ELSE None

-----------------------------------------------------------------------------
(* FakeAWSState and pyrsistent's transform *)

\* FakeAWSState(routing_rules=..., s3_buckets=...): error_key and
\* cloudfront_invalidations take their initial (empty) values
FakeAWSState(routing_rules, s3_buckets) ==
    [routing_rules |-> routing_rules,
     s3_buckets |-> s3_buckets,
     error_key |-> EmptyMap,
     cloudfront_invalidations |-> << >>]

\* a value of a fake bucket: the content read from the file, tagged with a
\* content type when it is a ContentTypeUnicode
Plain(content) == [content |-> content, content_type |-> None]
ContentTypeUnicode(content, content_type) ==
    [content |-> content, content_type |-> content_type]

\* state.transform(['s3_buckets', bucket, key], value): a missing bucket is
\* created on the way to the key
TransformSetKey(s, bucket, key, value) ==
    [s EXCEPT !.s3_buckets =
        Put(@, bucket, Put(GetOr(@, bucket, EmptyMap), key, value))]

\* state.transform(['s3_buckets', bucket, key], discard): discarding from a
\* missing bucket or a missing key changes nothing (pyrsistent sets a
\* branch only when the transformed branch is another object)
TransformDiscardKey(s, bucket, key) ==
    IF HasKey(s.s3_buckets, bucket)
    THEN [s EXCEPT !.s3_buckets[bucket] = Discard(@, key)]
    ELSE s

-----------------------------------------------------------------------------
(* The performers of FakeAWS, as functions of the FakeAWSState (and the     *)
(* filesystem): the new state, the outcome and the value returned.          *)

\* as update_s3_routing_rules, replacing the whole map of routing rules
update_s3_routing_rules_replacing(s, intent) ==
    [state |-> [s EXCEPT !.routing_rules =
                    Put(EmptyMap, intent.bucket, intent.routing_rules)],
     outcome |-> "ok", result |-> None]

update_s3_routing_rules(s, intent) ==
    [state |-> [s EXCEPT !.routing_rules =
                    Put(@, intent.bucket, intent.routing_rules)],
     outcome |-> "ok", result |-> None]

\* as update_s3_error_page, without the comparison of the two keys
update_s3_error_page_uncompared(s, intent) ==
    [state |-> [s EXCEPT !.error_key =
                    Put(@, intent.bucket, error_key(intent))],
     outcome |-> "ok",
     result |-> GetOr(s.error_key, intent.bucket, None)]

update_s3_error_page(s, intent) ==
    LET new_error_key == error_key(intent)
        old_error_key == GetOr(s.error_key, intent.bucket, None)
    IN  [state |-> [s EXCEPT !.error_key =
                        Put(@, intent.bucket, new_error_key)],
         outcome |-> "ok",
         result |-> IF old_error_key = new_error_key
                    THEN None ELSE old_error_key]

\* as create_cloudfront_invalidation, putting the intent first
create_cloudfront_invalidation_first(s, intent) ==
    [state |-> [s EXCEPT !.cloudfront_invalidations = <<intent>> \o @],
     outcome |-> "ok", result |-> None]

create_cloudfront_invalidation(s, intent) ==
    [state |-> [s EXCEPT !.cloudfront_invalidations = Append(@, intent)],
     outcome |-> "ok", result |-> None]

\* as delete_s3_keys, returning from inside the loop after the first key
delete_s3_keys_first_only(s, intent) ==
    [state |-> IF intent.keys = << >> THEN s
               ELSE TransformDiscardKey(s, intent.bucket,
                                        intent.prefix \o intent.keys[1]),
     outcome |-> "ok", result |-> None]

RECURSIVE delete_loop(_, _, _)
delete_loop(s, intent, i) ==
    IF i > Len(intent.keys) THEN s
    ELSE delete_loop(
             TransformDiscardKey(s, intent.bucket,
                                 intent.prefix \o intent.keys[i]),
             intent, i + 1)

delete_s3_keys(s, intent) ==
    [state |-> delete_loop(s, intent, 1), outcome |-> "ok", result |-> None]

\* the loop of _perform_copy_s3_keys: source_bucket is the bucket as it was
\* when the performer started; a KeyError leaves self.state as assigned by
\* the iterations before it
RECURSIVE copy_loop(_, _, _, _)
copy_loop(s, source_bucket, intent, i) ==
    IF i > Len(intent.keys) THEN [state |-> s, outcome |-> "ok"]
    ELSE LET key == intent.keys[i]
         IN  IF ~HasKey(source_bucket, intent.source_prefix \o key)
             THEN [state |-> s, outcome |-> "KeyError"]
             ELSE copy_loop(
                      TransformSetKey(
                          s, intent.destination_bucket,
                          intent.destination_prefix \o key,
                          source_bucket[intent.source_prefix \o key]),
                      source_bucket, intent, i + 1)

\* as copy_s3_keys, copying the bare content without its content type
RECURSIVE copy_loop_untagged(_, _, _, _)
copy_loop_untagged(s, source_bucket, intent, i) ==
    IF i > Len(intent.keys) THEN [state |-> s, outcome |-> "ok"]
    ELSE LET key == intent.keys[i]
         IN  IF ~HasKey(source_bucket, intent.source_prefix \o key)
             THEN [state |-> s, outcome |-> "KeyError"]
             ELSE copy_loop_untagged(
                      TransformSetKey(
                          s, intent.destination_bucket,
                          intent.destination_prefix \o key,
                          Plain(source_bucket[intent.source_prefix \o key]
                                    .content)),
                      source_bucket, intent, i + 1)

copy_s3_keys_untagged(s, intent) ==
    IF ~HasKey(s.s3_buckets, intent.source_bucket)
    THEN [state |-> s, outcome |-> "KeyError", result |-> None]
    ELSE LET r == copy_loop_untagged(
                      s, s.s3_buckets[intent.source_bucket], intent, 1)
         IN  [state |-> r.state, outcome |-> r.outcome, result |-> None]

\* as copy_s3_keys, giving back the state it started from when a key is
\* missing
copy_s3_keys_atomic(s, intent) ==
    IF ~HasKey(s.s3_buckets, intent.source_bucket)
    THEN [state |-> s, outcome |-> "KeyError", result |-> None]
    ELSE LET r == copy_loop(s, s.s3_buckets[intent.source_bucket], intent, 1)
         IN  [state |-> IF r.outcome = "ok" THEN r.state ELSE s,
              outcome |-> r.outcome, result |-> None]

copy_s3_keys(s, intent) ==
    IF ~HasKey(s.s3_buckets, intent.source_bucket)
    THEN [state |-> s, outcome |-> "KeyError", result |-> None]
    ELSE LET r == copy_loop(s, s.s3_buckets[intent.source_bucket], intent, 1)
         IN  [state |-> r.state, outcome |-> r.outcome, result |-> None]

\* as list_s3_keys, without stripping the prefix
list_s3_keys_unstripped(s, intent) ==
    IF ~HasKey(s.s3_buckets, intent.bucket)
    THEN [state |-> s, outcome |-> "KeyError", result |-> {}]
    ELSE [state |-> s, outcome |-> "ok",
          result |-> {k \in DOMAIN s.s3_buckets[intent.bucket] :
                         startswith(k, intent.prefix)}]

\* as list_s3_keys, taking the prefix to name a directory: a key matches
\* when it is the prefix or continues it with "/"
list_s3_keys_path_aware(s, intent) ==
    IF ~HasKey(s.s3_buckets, intent.bucket)
    THEN [state |-> s, outcome |-> "KeyError", result |-> {}]
    ELSE [state |-> s, outcome |-> "ok",
          result |-> {SliceFrom(key, Len(intent.prefix)) :
                         key \in {k \in DOMAIN s.s3_buckets[intent.bucket] :
                                     /\ startswith(k, intent.prefix)
                                     /\ \/ intent.prefix = ""
                                        \/ endswith(intent.prefix, "/")
                                        \/ k = intent.prefix
                                        \/ startswith(k, intent.prefix \o "/")
                                  }}]

\* as list_s3_keys, reading the bucket with a default of no keys
list_s3_keys_defaulting(s, intent) ==
    LET bucket == GetOr(s.s3_buckets, intent.bucket, EmptyMap)
    IN  [state |-> s, outcome |-> "ok",
         result |-> {SliceFrom(key, Len(intent.prefix)) :
                        key \in {k \in DOMAIN bucket :
                                    startswith(k, intent.prefix)}}]

list_s3_keys(s, intent) ==
    IF ~HasKey(s.s3_buckets, intent.bucket)
    THEN [state |-> s, outcome |-> "KeyError", result |-> {}]
    ELSE [state |-> s, outcome |-> "ok",
          result |-> {SliceFrom(key, Len(intent.prefix)) :
                         key \in {k \in DOMAIN s.s3_buckets[intent.bucket] :
                                     startswith(k, intent.prefix)}}]

\* FilePath.setContent
setContent(fs, path, content) == [fs EXCEPT ![path] = content]

\* as download_s3_key, writing an empty file for a key that is missing
download_s3_key_lenient(s, fs, intent) ==
    IF ~HasKey(s.s3_buckets, intent.source_bucket)
    THEN [state |-> s, files |-> fs, outcome |-> "KeyError"]
    ELSE LET bucket == s.s3_buckets[intent.source_bucket]
         IN  [state |-> s,
              files |-> setContent(
                            fs, intent.target_path,
                            GetOr(bucket, intent.source_key,
                                  Plain(Truncated)).content),
              outcome |-> "ok"]

download_s3_key(s, fs, intent) ==
    IF ~HasKey(s.s3_buckets, intent.source_bucket)
    THEN [state |-> s, files |-> fs, outcome |-> "KeyError"]
    ELSE LET bucket == s.s3_buckets[intent.source_bucket]
         IN  IF ~HasKey(bucket, intent.source_key)
             THEN [state |-> s, files |-> fs, outcome |-> "KeyError"]
             ELSE [state |-> s,
                   files |-> setContent(fs, intent.target_path,
                                        bucket[intent.source_key].content),
                   outcome |-> "ok"]

upload_s3_key(s, fs, intent) ==
    IF fs[intent.file] = NoFile
    THEN [state |-> s, outcome |-> "IOError"]
    ELSE LET content == fs[intent.file]
         IN  IF intent.content_type # None /\ content \in NonAscii
             THEN [state |-> s, outcome |-> "UnicodeDecodeError"]
             ELSE [state |->
                       TransformSetKey(
                           s, intent.target_bucket, intent.target_key,
                           IF intent.content_type # None
                           THEN ContentTypeUnicode(content,
                                                   intent.content_type)
                           ELSE Plain(content)),
                   outcome |-> "ok"]

-----------------------------------------------------------------------------
(* The performers of boto_dispatcher modelled here, as functions of the     *)
(* remote store: bucket -> key -> [content, content_type].                  *)

\* the Content-Type perform_copy_s3_keys puts in the destination metadata
destination_content_type(key, source_content_type) ==
    LET matching == {e \in DOMAIN EXTENSION_MIME_TYPES : endswith(key, e)}
    IN  IF matching = {} THEN source_content_type
        ELSE EXTENSION_MIME_TYPES[CHOOSE e \in matching : TRUE]

\* the loop of perform_copy_s3_keys: every get_key reads the remote bucket
\* as it is at that moment
RECURSIVE boto_copy_loop(_, _, _)
boto_copy_loop(store, intent, i) ==
    IF i > Len(intent.keys) THEN [store |-> store, outcome |-> "ok"]
    ELSE LET key == intent.keys[i]
             source_name == intent.source_prefix \o key
         IN  IF ~HasKey(store[intent.source_bucket], source_name)
             THEN [store |-> store, outcome |-> "AttributeError"]
             ELSE IF ~HasKey(store, intent.destination_bucket)
             THEN [store |-> store, outcome |-> "S3ResponseError"]
             ELSE LET source_key == store[intent.source_bucket][source_name]
                      copied ==
                          [content |-> source_key.content,
                           content_type |->
                               destination_content_type(
                                   key, source_key.content_type)]
                  IN  boto_copy_loop(
                          [store EXCEPT ![intent.destination_bucket] =
                              Put(@, intent.destination_prefix \o key,
                                  copied)],
                          intent, i + 1)

boto_copy_s3_keys(store, intent) ==
    IF ~HasKey(store, intent.source_bucket)
    THEN [store |-> store, outcome |-> "S3ResponseError"]
    ELSE boto_copy_loop(store, intent, 1)

\* perform_download_s3_key: the outcomes the remote service allows.  Once
\* the target is opened with 'w' the transfer either completes or fails and
\* leaves the truncated file behind.
boto_download_s3_key(store, fs, intent) ==
    IF ~HasKey(store, intent.source_bucket)
    THEN {[files |-> fs, outcome |-> "S3ResponseError"]}
    ELSE IF ~HasKey(store[intent.source_bucket], intent.source_key)
    THEN {[files |-> fs, outcome |-> "KeyError"]}
    ELSE {[files |-> [fs EXCEPT ![intent.target_path] =
                         store[intent.source_bucket][intent.source_key]
                             .content],
           outcome |-> "ok"],
          [files |-> [fs EXCEPT ![intent.target_path] = Truncated],
           outcome |-> "S3ResponseError"]}

\* the website configuration of the buckets of a store before any error
\* page is set, never persisted yet
WebsiteOf(store) ==
    [error_key |-> [b \in DOMAIN store |-> None], writes |-> 0]

\* as boto_update_s3_error_page, persisting the configuration in any case
boto_update_s3_error_page_persisting(store, site, intent) ==
    IF ~HasKey(store, intent.bucket)
    THEN [website |-> site, outcome |-> "S3ResponseError", result |-> None]
    ELSE LET new_error_key == error_key(intent)
             old_error_key == site.error_key[intent.bucket]
         IN  [website |->
                  [error_key |-> Put(site.error_key, intent.bucket,
                                     new_error_key),
                   writes |-> site.writes + 1],
              outcome |-> "ok",
              result |-> IF old_error_key = new_error_key
                         THEN None ELSE old_error_key]

\* perform_update_s3_error_page: config.error_key is compared first and
\* bucket.set_website_configuration is called only when it changes
boto_update_s3_error_page(store, site, intent) ==
    IF ~HasKey(store, intent.bucket)
    THEN [website |-> site, outcome |-> "S3ResponseError", result |-> None]
    ELSE LET new_error_key == error_key(intent)
             old_error_key == site.error_key[intent.bucket]
         IN  IF old_error_key = new_error_key
             THEN [website |-> site, outcome |-> "ok", result |-> None]
             ELSE [website |->
                       [error_key |-> Put(site.error_key, intent.bucket,
                                          new_error_key),
                        writes |-> site.writes + 1],
                   outcome |-> "ok", result |-> old_error_key]

-----------------------------------------------------------------------------
(* Object identity of FakeAWSState instances *)

\* as SetState, changing the instance FakeAWS.state refers to in place
SetStateInPlace(h, keep, cur, val) ==
    [heap |-> [j \in keep \cup {cur} |-> IF j = cur THEN val ELSE h[j]],
     ref |-> cur]

\* self.state = self.state.transform(...): transform builds a new instance
\* and FakeAWS.state is made to refer to it.  keep: the instances still
\* referred to from elsewhere; an instance nobody refers to is collected.
SetState(h, keep, cur, val) ==
    LET id == CHOOSE i \in Ids \ keep : \A j \in Ids \ keep : i <= j
    IN  [heap |-> [j \in keep \cup {id} |-> IF j = id THEN val ELSE h[j]],
         ref |-> id]

\* as read_finally, leaving the file where it is
read_finally_skipped(fs, target_file) == fs

\* the finally clause of perform_read_s3_key
read_finally(fs, target_file) ==
    IF fs[target_file] # NoFile
    THEN [fs EXCEPT ![target_file] = NoFile]
    ELSE fs

-----------------------------------------------------------------------------
(* History kept for the properties *)

Targets(prefix, keys) == {prefix \o keys[i] : i \in 1..Len(keys)}

\* the content UploadToS3 stored at each (bucket, key) of FakeAWS, forgotten
\* when a later intent deletes or overwrites that key
UploadedAfter(intent, outcome) ==
    [bk \in Buckets \X FullKeys |->
        CASE intent.type = "UploadToS3"
                 /\ bk = <<intent.target_bucket, intent.target_key>> ->
                 IF outcome = "ok" THEN files[intent.file] ELSE uploaded[bk]
          [] intent.type = "DeleteS3Keys" /\ bk[1] = intent.bucket
                 /\ bk[2] \in Targets(intent.prefix, intent.keys) -> None
          [] intent.type = "CopyS3Keys" /\ bk[1] = intent.destination_bucket
                 /\ bk[2] \in Targets(intent.destination_prefix, intent.keys)
                 -> None
          [] OTHER -> uploaded[bk]]

NoFrame == [intent |-> [type |-> None]]

-----------------------------------------------------------------------------
(* Construction *)

BothKeys == Put(Put(EmptyMap, ".js", Plain("c1")), "a.js", Plain("c2"))

\* the arguments fake_aws is called with: bucket "b1" with two keys and a
\* routing rule; there is no bucket "b2"
InitialArguments ==
    {[routing_rules |-> Put(EmptyMap, "b1", "r1"),
      s3_buckets |-> Put(EmptyMap, "b1", BothKeys)]}

\* fake_aws(routing_rules, s3_buckets) and FakeAWS.__init__; the same
\* buckets are what the remote store holds when boto is used
Init ==
    /\ dispatcher \in {boto_dispatcher, get_dispatcher}
    /\ \E args \in InitialArguments :
          /\ heap = [i \in {0} |->
                        FakeAWSState(args.routing_rules, args.s3_buckets)]
          /\ s3 = args.s3_buckets
          /\ website = WebsiteOf(args.s3_buckets)
    /\ state = 0
    /\ initial_state = state
    /\ files = [p \in Paths \cup {TempPath} |->
                   IF p = "f1" THEN "c1" ELSE NoFile]
    /\ pc = "idle"
    /\ frame = NoFrame
    /\ last = [type |-> None, outcome |-> "ok", result |-> None]
    /\ uploaded = [bk \in Buckets \X FullKeys |-> None]
    /\ steps = 0

-----------------------------------------------------------------------------
(* Actions: the caller performs one intent at a time with its dispatcher *)

\* sync_perform(dispatcher, Effect(intent)) picks this performer
Dispatched(intent, performer) ==
    /\ pc = "idle"
    /\ steps < MaxSteps
    /\ Performer(dispatcher, intent) = performer

\* the performer of FakeAWS returns (or raises) with r.state as self.state
FakeReturns(intent, r) ==
    /\ IF r.state = heap[state]
       THEN UNCHANGED <<heap, state>>
       ELSE LET a == SetState(heap, {initial_state}, state, r.state)
            IN  heap' = a.heap /\ state' = a.ref
    /\ last' = [type |-> intent.type, outcome |-> r.outcome,
                result |-> r.result]
    /\ uploaded' = UploadedAfter(intent, r.outcome)
    /\ steps' = steps + 1
    /\ UNCHANGED <<dispatcher, initial_state, s3, website, pc, frame>>

FakeAWS_perform_update_s3_routing_rules(intent) ==
    /\ Dispatched(intent, "FakeAWS._perform_update_s3_routing_rules")
    /\ FakeReturns(intent, update_s3_routing_rules(heap[state], intent))
    /\ UNCHANGED files

FakeAWS_perform_update_s3_error_page(intent) ==
    /\ Dispatched(intent, "FakeAWS._perform_update_s3_error_page")
    /\ FakeReturns(intent, update_s3_error_page(heap[state], intent))
    /\ UNCHANGED files

FakeAWS_perform_create_cloudfront_invalidation(intent) ==
    /\ Dispatched(intent, "FakeAWS._perform_create_cloudfront_invalidation")
    /\ FakeReturns(intent, create_cloudfront_invalidation(heap[state], intent))
    /\ UNCHANGED files

FakeAWS_perform_delete_s3_keys(intent) ==
    /\ Dispatched(intent, "FakeAWS._perform_delete_s3_keys")
    /\ FakeReturns(intent, delete_s3_keys(heap[state], intent))
    /\ UNCHANGED files

FakeAWS_perform_copy_s3_keys(intent) ==
    /\ Dispatched(intent, "FakeAWS._perform_copy_s3_keys")
    /\ FakeReturns(intent, copy_s3_keys(heap[state], intent))
    /\ UNCHANGED files

FakeAWS_perform_list_s3_keys(intent) ==
    /\ Dispatched(intent, "FakeAWS._perform_list_s3_keys")
    /\ FakeReturns(intent, list_s3_keys(heap[state], intent))
    /\ UNCHANGED files

FakeAWS_perform_download_s3_key(intent) ==
    /\ Dispatched(intent, "FakeAWS._perform_download_s3_key")
    /\ LET r == download_s3_key(heap[state], files, intent)
       IN  /\ FakeReturns(intent, [state |-> r.state, outcome |-> r.outcome,
                                   result |-> None])
           /\ files' = r.files

FakeAWS_perform_upload_s3_key(intent) ==
    /\ Dispatched(intent, "FakeAWS._perform_upload_s3_key")
    /\ LET r == upload_s3_key(heap[state], files, intent)
       IN  FakeReturns(intent, [state |-> r.state, outcome |-> r.outcome,
                                result |-> None])
    /\ UNCHANGED files

perform_update_s3_error_page(intent) ==
    /\ Dispatched(intent, "perform_update_s3_error_page")
    /\ LET r == boto_update_s3_error_page(s3, website, intent)
       IN  /\ website' = r.website
           /\ last' = [type |-> intent.type, outcome |-> r.outcome,
                       result |-> r.result]
    /\ steps' = steps + 1
    /\ UNCHANGED <<dispatcher, heap, state, initial_state, s3, files, pc,
                   frame, uploaded>>

perform_copy_s3_keys(intent) ==
    /\ Dispatched(intent, "perform_copy_s3_keys")
    /\ LET r == boto_copy_s3_keys(s3, intent)
       IN  /\ s3' = r.store
           /\ last' = [type |-> intent.type, outcome |-> r.outcome,
                       result |-> None]
    /\ steps' = steps + 1
    /\ UNCHANGED <<dispatcher, heap, state, initial_state, website, files, pc,
                   frame, uploaded>>

perform_download_s3_key(intent) ==
    /\ Dispatched(intent, "perform_download_s3_key")
    /\ \E r \in boto_download_s3_key(s3, files, intent) :
          /\ files' = r.files
          /\ last' = [type |-> intent.type, outcome |-> r.outcome,
                      result |-> None]
    /\ steps' = steps + 1
    /\ UNCHANGED <<dispatcher, heap, state, initial_state, s3, website, pc,
                   frame, uploaded>>

\* the outcomes of the DownloadS3Key the generator yields, performed with
\* the dispatcher the outer intent was performed with
InnerDownload(intent) ==
    CASE Performer(dispatcher, intent) = "FakeAWS._perform_download_s3_key" ->
             LET r == download_s3_key(heap[state], files, intent)
             IN  {[files |-> r.files, outcome |-> r.outcome]}
      [] Performer(dispatcher, intent) = "perform_download_s3_key" ->
             boto_download_s3_key(s3, files, intent)

\* perform_read_s3_key through its try block: the temporary path is made
\* up (no file is created yet), the yielded DownloadS3Key is performed and,
\* when that succeeded, target_file.getContent() is read
perform_read_s3_key(intent) ==
    /\ Dispatched(intent, "perform_read_s3_key")
    /\ files[TempPath] = NoFile
    /\ \E r \in InnerDownload(
                   [type |-> "DownloadS3Key",
                    source_bucket |-> intent.source_bucket,
                    source_key |-> intent.source_key,
                    target_path |-> TempPath]) :
          /\ files' = r.files
          /\ frame' = [intent |-> intent,
                       target_file |-> TempPath,
                       outcome |-> r.outcome,
                       content |-> IF r.outcome = "ok"
                                   THEN r.files[TempPath] ELSE None]
    /\ pc' = "read_finally"
    /\ UNCHANGED <<dispatcher, heap, state, initial_state, s3, website, last,
                   uploaded, steps>>

\* the finally clause, then the return or the re-raise
perform_read_s3_key_finally ==
    /\ pc = "read_finally"
    /\ files' = read_finally(files, frame.target_file)
    /\ last' = [type |-> "ReadS3Key", outcome |-> frame.outcome,
                result |-> frame.content]
    /\ pc' = "idle"
    /\ frame' = NoFrame
    /\ steps' = steps + 1
    /\ UNCHANGED <<dispatcher, heap, state, initial_state, s3, website,
                   uploaded>>

Next ==
    \/ \E intent \in UpdateS3RoutingRules :
          FakeAWS_perform_update_s3_routing_rules(intent)
    \/ \E intent \in UpdateS3ErrorPage :
          FakeAWS_perform_update_s3_error_page(intent)
    \/ \E intent \in CreateCloudFrontInvalidation :
          FakeAWS_perform_create_cloudfront_invalidation(intent)
    \/ \E intent \in DeleteS3Keys : FakeAWS_perform_delete_s3_keys(intent)
    \/ \E intent \in CopyS3Keys : FakeAWS_perform_copy_s3_keys(intent)
    \/ \E intent \in ListS3Keys : FakeAWS_perform_list_s3_keys(intent)
    \/ \E intent \in DownloadS3Key : FakeAWS_perform_download_s3_key(intent)
    \/ \E intent \in UploadToS3 : FakeAWS_perform_upload_s3_key(intent)
    \/ \E intent \in UpdateS3ErrorPage : perform_update_s3_error_page(intent)
    \/ \E intent \in CopyS3Keys : perform_copy_s3_keys(intent)
    \/ \E intent \in DownloadS3Key : perform_download_s3_key(intent)
    \/ \E intent \in ReadS3Key : perform_read_s3_key(intent)
    \/ perform_read_s3_key_finally

Spec == Init /\ [][Next]_vars

-----------------------------------------------------------------------------
(* Paths: os.path and twisted.python.filepath.FilePath, on POSIX.  A path   *)
(* is a string; the filesystem maps every path it knows to NoFile, to       *)
(* Directory or to the content of a regular file.                           *)

Directory == "<directory>"
InsecurePath == "InsecurePath"

\* s.split("/")
RECURSIVE SplitFrom(_, _, _)
SplitFrom(s, i, comp) ==
    IF i > Len(s) THEN <<comp>>
    ELSE IF SubSeq(s, i, i) = "/"
         THEN <<comp>> \o SplitFrom(s, i + 1, "")
         ELSE SplitFrom(s, i + 1, comp \o SubSeq(s, i, i))

split(s) == SplitFrom(s, 1, "")

\* "/".join(comps)
RECURSIVE JoinFrom(_, _)
JoinFrom(comps, i) ==
    IF i > Len(comps) THEN ""
    ELSE IF i = Len(comps) THEN comps[i]
    ELSE comps[i] \o "/" \o JoinFrom(comps, i + 1)

\* the loop of posixpath.normpath over the components
RECURSIVE NormComps(_, _, _, _)
NormComps(comps, i, initial_slashes, new_comps) ==
    IF i > Len(comps) THEN new_comps
    ELSE LET comp == comps[i]
         IN  IF comp \in {"", "."}
             THEN NormComps(comps, i + 1, initial_slashes, new_comps)
             ELSE IF \/ comp # ".."
                     \/ (initial_slashes = 0 /\ new_comps = << >>)
                     \/ (new_comps # << >>
                             /\ new_comps[Len(new_comps)] = "..")
             THEN NormComps(comps, i + 1, initial_slashes,
                            Append(new_comps, comp))
             ELSE IF new_comps # << >>
             THEN NormComps(comps, i + 1, initial_slashes,
                            SubSeq(new_comps, 1, Len(new_comps) - 1))
             ELSE NormComps(comps, i + 1, initial_slashes, new_comps)

\* posixpath.normpath
normpath(path) ==
    IF path = "" THEN "."
    ELSE LET initial_slashes ==
                 IF ~startswith(path, "/") THEN 0
                 ELSE IF startswith(path, "//") /\ ~startswith(path, "///")
                 THEN 2 ELSE 1
             joined == JoinFrom(NormComps(split(path), 1, initial_slashes,
                                          << >>), 1)
             normed == CASE initial_slashes = 0 -> joined
                         [] initial_slashes = 1 -> "/" \o joined
                         [] initial_slashes = 2 -> "//" \o joined
         IN  IF normed = "" THEN "." ELSE normed

\* posixpath.join(a, b)
join(a, b) ==
    IF startswith(b, "/") THEN b
    ELSE IF a = "" \/ endswith(a, "/") THEN a \o b
    ELSE a \o "/" \o b

\* posixpath.abspath of a path; the working directory is "/"
abspath(path) ==
    normpath(IF startswith(path, "/") THEN path ELSE join("/", path))

\* FilePath.preauthChild: the child is accepted when its absolute path
\* starts, as a string, with the path of self
preauthChild(self, path) ==
    LET newpath == abspath(join(self, normpath(path)))
    IN  IF ~startswith(newpath, self) THEN InsecurePath ELSE newpath

\* the index after the last "/" of p
RECURSIVE AfterLastSlash(_, _)
AfterLastSlash(p, i) ==
    IF i = 0 THEN 0
    ELSE IF SubSeq(p, i, i) = "/" THEN i ELSE AfterLastSlash(p, i - 1)

\* head.rstrip("/")
RECURSIVE rstrip(_)
rstrip(head) ==
    IF head # "" /\ endswith(head, "/")
    THEN rstrip(SubSeq(head, 1, Len(head) - 1))
    ELSE head

\* FilePath.parent: posixpath.dirname
parent(p) ==
    LET head == SubSeq(p, 1, AfterLastSlash(p, Len(p)))
    IN  IF head # "" /\ rstrip(head) # "" THEN rstrip(head) ELSE head

exists(fs, p) == fs[p] # NoFile
isfile(fs, p) == fs[p] \notin {NoFile, Directory}

\* FilePath.makedirs: os.makedirs creates the missing ancestors first
RECURSIVE makedirs(_, _)
makedirs(fs, p) ==
    IF exists(fs, p) THEN fs
    ELSE [makedirs(fs, parent(p)) EXCEPT ![p] = Directory]

\* p is path or lies below it
Under(path, p) == p = path \/ startswith(p, path \o "/")

\* key.endswith(extensions), extensions a tuple
endswith_any(s, extensions) ==
    \E i \in 1..Len(extensions) : endswith(s, extensions[i])

-----------------------------------------------------------------------------
(* The performers of boto_dispatcher that the composite performers yield    *)
(* to, as functions of the remote store.                                    *)

\* perform_list_s3_keys: bucket.list(prefix) gives the keys whose name starts
\* with the prefix
boto_list_s3_keys(store, intent) ==
    IF ~HasKey(store, intent.bucket)
    THEN [outcome |-> "S3ResponseError", result |-> {}]
    ELSE [outcome |-> "ok",
          result |-> {SliceFrom(name, Len(intent.prefix)) :
                         name \in {k \in DOMAIN store[intent.bucket] :
                                      startswith(k, intent.prefix)}}]

\* perform_upload_s3_key: the outcomes the remote service allows once the
\* bucket is found and the file is open
boto_upload_s3_key(store, fs, intent) ==
    IF ~HasKey(store, intent.target_bucket)
    THEN {[store |-> store, outcome |-> "S3ResponseError"]}
    ELSE IF ~isfile(fs, intent.file)
    THEN {[store |-> store, outcome |-> "IOError"]}
    ELSE {[store |-> [store EXCEPT ![intent.target_bucket] =
                         Put(@, intent.target_key,
                             [content |-> fs[intent.file],
                              content_type |-> intent.content_type])],
           outcome |-> "ok"],
          [store |-> store, outcome |-> "S3ResponseError"]}

-----------------------------------------------------------------------------
(* The composite performers: generators that yield primitive intents, which *)
(* are performed with the dispatcher the composite was performed with.      *)

\* number of objects a bucket holds when a composite intent is performed
MaxObjects == 2
\* number of composite intents the caller performs
MaxComposites == 1

SourcePath == "/s"
TargetPath == "/t"
Tree == {"/", "/t", "/t/x.js", "/t/y.css", "/t2", "/t2/x.js", "/s",
         "/s/x.txt", "/s/gone.txt", "/s/sub", "/s/sub/y.txt", "/s2",
         "/s2/z.txt"}

RecursiveKeys ==
    {"a/x.js", "a/y.css", "a/../x.js", "a/../t2/x.js", "/x.js", "a//x.js"}
RecursivePrefixes == {"", "a", "a/"}
Extensions == {<<".js">>, <<".js", ".css">>}
Children ==
    {"x.txt", "sub/y.txt", "sub", "gone.txt", "../s2/z.txt", "../x.js"}

SetsUpTo(S, n) == {x \in SUBSET S : Cardinality(x) <= n}

\* the files of an UploadToS3Recursively: no path, one, or two
FileSets == {{}} \cup {{c, d} : c, d \in Children}

DownloadS3KeyRecursively ==
    {[type |-> "DownloadS3KeyRecursively", source_bucket |-> b,
      source_prefix |-> p, target_path |-> TargetPath,
      filter_extensions |-> e] :
        b \in Buckets, p \in RecursivePrefixes, e \in Extensions}

UploadToS3Recursively ==
    {[type |-> "UploadToS3Recursively", source_path |-> SourcePath,
      target_bucket |-> b, target_key |-> "k", files |-> fs] :
        b \in Buckets, fs \in FileSets}

\* an intent of a type neither dispatcher has a performer for
OtherIntents == {[type |-> "Constant"]}

\* the eleven intent types of this module
IntentTypes ==
    {"UpdateS3RoutingRules", "UpdateS3ErrorPage",
     "CreateCloudFrontInvalidation", "DeleteS3Keys", "CopyS3Keys",
     "ListS3Keys", "DownloadS3KeyRecursively", "DownloadS3Key", "ReadS3Key",
     "UploadToS3Recursively", "UploadToS3"}

\* what performing an Effect gives when the dispatcher returns no performer
\* as no_performer_found, going on as if the intent had been performed
no_performer_found_ignored(intent) ==
    [outcome |-> "ok", result |-> None]

no_performer_found(intent) ==
    [outcome |-> "NoPerformerFoundError", result |-> intent.type]

\* yield Effect(ListS3Keys(...))
PerformList(d, s, store, sub) ==
    CASE Performer(d, sub) = "FakeAWS._perform_list_s3_keys" ->
             LET r == list_s3_keys(s, sub)
             IN  [outcome |-> r.outcome, result |-> r.result]
      [] Performer(d, sub) = "perform_list_s3_keys" ->
             boto_list_s3_keys(store, sub)

\* as PerformDownload, with the performer of FakeAWS whatever the dispatcher
PerformDownloadFake(d, s, store, fs, sub) ==
    LET r == download_s3_key(s, fs, sub)
    IN  {[files |-> r.files, outcome |-> r.outcome]}

\* yield Effect(DownloadS3Key(...))
PerformDownload(d, s, store, fs, sub) ==
    CASE Performer(d, sub) = "FakeAWS._perform_download_s3_key" ->
             LET r == download_s3_key(s, fs, sub)
             IN  {[files |-> r.files, outcome |-> r.outcome]}
      [] Performer(d, sub) = "perform_download_s3_key" ->
             boto_download_s3_key(store, fs, sub)

\* yield Effect(UploadToS3(...))
PerformUpload(d, s, store, fs, sub) ==
    CASE Performer(d, sub) = "FakeAWS._perform_upload_s3_key" ->
             LET r == upload_s3_key(s, fs, sub)
             IN  {[state |-> r.state, store |-> store, outcome |-> r.outcome]}
      [] Performer(d, sub) = "perform_upload_s3_key" ->
             {[state |-> s, store |-> r.store, outcome |-> r.outcome] :
                 r \in boto_upload_s3_key(store, fs, sub)}

\* as download_iteration, going on with the next key after a DownloadS3Key
\* that failed
download_iteration_continuing(d, s, store, fs, fr, key) ==
    LET intent == fr.intent
        rest == [fr EXCEPT !.remaining = @ \ {key}]
    IN  IF ~endswith_any(key, intent.filter_extensions)
        THEN {[files |-> fs, frame |-> rest, outcome |-> "continue"]}
        ELSE LET path == preauthChild(intent.target_path, key)
             IN  IF path = InsecurePath
                 THEN {[files |-> fs, frame |-> rest,
                        outcome |-> InsecurePath]}
                 ELSE LET made == IF ~exists(fs, parent(path))
                                  THEN makedirs(fs, parent(path)) ELSE fs
                          sub == [type |-> "DownloadS3Key",
                                  source_bucket |-> intent.source_bucket,
                                  source_key |->
                                      join(intent.source_prefix, key),
                                  target_path |-> path]
                      IN  {[files |-> r.files,
                            frame |-> [rest EXCEPT !.issued = Append(@, sub)],
                            outcome |-> "continue"] :
                               r \in PerformDownload(d, s, store, made, sub)}

\* one iteration of the loop of perform_download_s3_key_recursively, for the
\* key the iteration of the set comes to: the filesystem and the frame after
\* it, and "continue" or the exception that ends the generator
download_iteration(d, s, store, fs, fr, key) ==
    LET intent == fr.intent
        rest == [fr EXCEPT !.remaining = @ \ {key}]
    IN  IF ~endswith_any(key, intent.filter_extensions)
        THEN {[files |-> fs, frame |-> rest, outcome |-> "continue"]}
        ELSE LET path == preauthChild(intent.target_path, key)
             IN  IF path = InsecurePath
                 THEN {[files |-> fs, frame |-> rest,
                        outcome |-> InsecurePath]}
                 ELSE LET made == IF ~exists(fs, parent(path))
                                  THEN makedirs(fs, parent(path)) ELSE fs
                          sub == [type |-> "DownloadS3Key",
                                  source_bucket |-> intent.source_bucket,
                                  source_key |->
                                      join(intent.source_prefix, key),
                                  target_path |-> path]
                      IN  {[files |-> r.files,
                            frame |-> [rest EXCEPT !.issued = Append(@, sub)],
                            outcome |-> IF r.outcome = "ok"
                                        THEN "continue" ELSE r.outcome] :
                               r \in PerformDownload(d, s, store, made, sub)}

\* one iteration of the loop of perform_upload_s3_key_recursively, for the
\* child the iteration of the set comes to
upload_iteration(d, s, store, fs, fr, child) ==
    LET intent == fr.intent
        rest == [fr EXCEPT !.remaining = @ \ {child}]
        path == preauthChild(intent.source_path, child)
    IN  IF path = InsecurePath
        THEN {[state |-> s, store |-> store, frame |-> rest,
               outcome |-> InsecurePath]}
        ELSE IF ~isfile(fs, path)
        THEN {[state |-> s, store |-> store, frame |-> rest,
               outcome |-> "continue"]}
        ELSE LET sub == [type |-> "UploadToS3",
                         source_path |-> intent.source_path,
                         target_bucket |-> intent.target_bucket,
                         target_key |-> intent.target_key \o "/" \o child,
                         file |-> path,
                         content_type |-> None]
             IN  {[state |-> r.state, store |-> r.store,
                   frame |-> [rest EXCEPT !.issued = Append(@, sub)],
                   outcome |-> IF r.outcome = "ok"
                               THEN "continue" ELSE r.outcome] :
                      r \in PerformUpload(d, s, store, fs, sub)}

\* the objects of bucket "b1": FakeAWS and the remote store hold the same
\* keys with contents of their own
FakeContent(k) == IF k = "a/x.js" THEN "c1" ELSE "c2"
RemoteContent(k) == IF k = "a/x.js" THEN "c2" ELSE "c1"

\* a source directory with two regular files, a directory and a missing
\* path, a sibling directory with a regular file, and no target directory
InitialTree ==
    [p \in Tree |->
        CASE p \in {"/", "/s", "/s/sub", "/s2"} -> Directory
          [] p \in {"/s/x.txt"} -> "c1"
          [] p \in {"/s/sub/y.txt", "/s2/z.txt"} -> "c2"
          [] OTHER -> NoFile]

InitComposite ==
    /\ dispatcher \in {boto_dispatcher, get_dispatcher}
    /\ \E keys \in SetsUpTo(RecursiveKeys, MaxObjects) :
          /\ heap = [i \in {0} |->
                        FakeAWSState(
                            EmptyMap,
                            [b \in {"b1"} |->
                                [k \in keys |-> Plain(FakeContent(k))]])]
          /\ s3 = [b \in {"b1"} |-> [k \in keys |-> Plain(RemoteContent(k))]]
    /\ website = WebsiteOf(s3)
    /\ state = 0
    /\ initial_state = state
    /\ files = InitialTree
    /\ pc = "idle"
    /\ frame = NoFrame
    /\ last = [type |-> None, outcome |-> "ok", result |-> None]
    /\ uploaded = [bk \in Buckets \X FullKeys |-> None]
    /\ steps = 0

\* sync_perform(dispatcher, Effect(intent)) picks this performer
DispatchedComposite(intent, performer) ==
    /\ pc = "idle"
    /\ steps < MaxComposites
    /\ Performer(dispatcher, intent) = performer

\* the generator ends: with its value, or with the exception that goes to
\* the caller of the composite intent
Finishes(type, outcome) ==
    /\ pc' = "idle"
    /\ frame' = NoFrame
    /\ last' = [type |-> type, outcome |-> outcome, result |-> None]
    /\ steps' = steps + 1

\* self.state = ... inside a performer of FakeAWS a composite yields to
FakeAssigns(val) ==
    IF val = heap[state]
    THEN UNCHANGED <<heap, state>>
    ELSE LET a == SetState(heap, {initial_state}, state, val)
         IN  heap' = a.heap /\ state' = a.ref

\* perform_download_s3_key_recursively up to the loop: the ListS3Keys it
\* yields is performed, and keys is its result
perform_download_s3_key_recursively(intent) ==
    /\ DispatchedComposite(intent, "perform_download_s3_key_recursively")
    /\ LET sub == [type |-> "ListS3Keys", bucket |-> intent.source_bucket,
                   prefix |-> intent.source_prefix \o "/"]
           r == PerformList(dispatcher, heap[state], s3, sub)
       IN  IF r.outcome = "ok"
           THEN /\ pc' = "download_loop"
                /\ frame' = [intent |-> intent, remaining |-> r.result,
                             issued |-> <<sub>>]
                /\ UNCHANGED <<last, steps>>
           ELSE Finishes(intent.type, r.outcome)
    /\ UNCHANGED <<dispatcher, heap, state, initial_state, s3, website, files,
                   uploaded>>

\* one iteration of for key in keys
perform_download_s3_key_recursively_iteration ==
    /\ pc = "download_loop"
    /\ \E key \in frame.remaining :
          \E r \in download_iteration(dispatcher, heap[state], s3, files,
                                      frame, key) :
              /\ files' = r.files
              /\ IF r.outcome = "continue"
                 THEN frame' = r.frame /\ UNCHANGED <<pc, last, steps>>
                 ELSE Finishes(frame.intent.type, r.outcome)
    /\ UNCHANGED <<dispatcher, heap, state, initial_state, s3, website,
                   uploaded>>

\* the loop is over: the generator returns
perform_download_s3_key_recursively_return ==
    /\ pc = "download_loop"
    /\ frame.remaining = {}
    /\ Finishes(frame.intent.type, "ok")
    /\ UNCHANGED <<dispatcher, heap, state, initial_state, s3, website, files,
                   uploaded>>

\* perform_upload_s3_key_recursively up to the loop
perform_upload_s3_key_recursively(intent) ==
    /\ DispatchedComposite(intent, "perform_upload_s3_key_recursively")
    /\ pc' = "upload_loop"
    /\ frame' = [intent |-> intent, remaining |-> intent.files,
                 issued |-> << >>]
    /\ UNCHANGED <<dispatcher, heap, state, initial_state, s3, website, files,
                   last, uploaded, steps>>

\* one iteration of for child in intent.files
perform_upload_s3_key_recursively_iteration ==
    /\ pc = "upload_loop"
    /\ \E child \in frame.remaining :
          \E r \in upload_iteration(dispatcher, heap[state], s3, files,
                                    frame, child) :
              /\ FakeAssigns(r.state)
              /\ s3' = r.store
              /\ IF r.outcome = "continue"
                 THEN frame' = r.frame /\ UNCHANGED <<pc, last, steps>>
                 ELSE Finishes(frame.intent.type, r.outcome)
    /\ UNCHANGED <<dispatcher, initial_state, website, files, uploaded>>

perform_upload_s3_key_recursively_return ==
    /\ pc = "upload_loop"
    /\ frame.remaining = {}
    /\ Finishes(frame.intent.type, "ok")
    /\ UNCHANGED <<dispatcher, heap, state, initial_state, s3, website, files,
                   uploaded>>

\* an intent the dispatcher returns no performer for
perform_unregistered(intent) ==
    /\ DispatchedComposite(intent, None)
    /\ LET r == no_performer_found(intent)
       IN  last' = [type |-> intent.type, outcome |-> r.outcome,
                    result |-> r.result]
    /\ steps' = steps + 1
    /\ UNCHANGED <<dispatcher, heap, state, initial_state, s3, website, files,
                   pc, frame, uploaded>>

NextComposite ==
    \/ \E intent \in DownloadS3KeyRecursively :
          perform_download_s3_key_recursively(intent)
    \/ perform_download_s3_key_recursively_iteration
    \/ perform_download_s3_key_recursively_return
    \/ \E intent \in UploadToS3Recursively :
          perform_upload_s3_key_recursively(intent)
    \/ perform_upload_s3_key_recursively_iteration
    \/ perform_upload_s3_key_recursively_return
    \/ \E intent \in OtherIntents : perform_unregistered(intent)

SpecComposite == InitComposite /\ [][NextComposite]_vars

-----------------------------------------------------------------------------
(* Properties *)

\* the FakeAWSState FakeAWS.state refers to
Current == heap[state]

Simulated == dispatcher = get_dispatcher

\* this step completes an intent of the given type
Performed(type) == steps' = steps + 1 /\ last'.type = type

Listing(b, p) == [type |-> "ListS3Keys", bucket |-> b, prefix |-> p]
Downloading(b, k, t) ==
    [type |-> "DownloadS3Key", source_bucket |-> b, source_key |-> k,
     target_path |-> t]

\* (b, k) holds what an UploadToS3 stored and nothing deleted or overwrote
Intact(b, k) == uploaded[<<b, k>>] # None

\* C1, in every state: for a key that holds an upload, ListS3Keys with any
\* plain string prefix of the key returns the key with the prefix stripped,
\* and DownloadS3Key writes exactly the uploaded content
C1_State ==
    Simulated =>
        \A b \in Buckets, k \in FullKeys :
            Intact(b, k) =>
                /\ \A p \in PrefixesOf(k) :
                      LET r == list_s3_keys(Current, Listing(b, p))
                      IN  r.outcome = "ok" /\ SliceFrom(k, Len(p)) \in r.result
                /\ \A t \in TargetPaths :
                      LET r == download_s3_key(Current, files,
                                               Downloading(b, k, t))
                      IN  /\ r.outcome = "ok"
                          /\ r.files[t] = uploaded[<<b, k>>]

\* C1, in every step: what the performed ListS3Keys, DownloadS3Key and
\* ReadS3Key intents give the caller for a key that holds an upload
C1_Step ==
    /\ Performed("ListS3Keys") => \A intent \in ListS3Keys :
          FakeAWS_perform_list_s3_keys(intent) =>
              \A k \in FullKeys :
                  Intact(intent.bucket, k) /\ startswith(k, intent.prefix) =>
                      /\ last'.outcome = "ok"
                      /\ SliceFrom(k, Len(intent.prefix)) \in last'.result
    /\ Performed("DownloadS3Key") => \A intent \in DownloadS3Key :
          FakeAWS_perform_download_s3_key(intent)
              /\ Intact(intent.source_bucket, intent.source_key) =>
                  /\ last'.outcome = "ok"
                  /\ files'[intent.target_path] =
                         uploaded[<<intent.source_bucket, intent.source_key>>]
    /\ perform_read_s3_key_finally /\ Simulated
           /\ Intact(frame.intent.source_bucket, frame.intent.source_key) =>
               /\ last'.outcome = "ok"
               /\ last'.result =
                      uploaded[<<frame.intent.source_bucket,
                                 frame.intent.source_key>>]

\* C1: in FakeAWS, once UploadToS3 stored content c at (b, k), and as long as
\* no later intent deletes or overwrites (b, k), ListS3Keys(b, p) for every
\* plain string prefix p of k contains k with p stripped from the front, and
\* DownloadS3Key / ReadS3Key of (b, k) give exactly c, also when the upload
\* carried a content type.
C1_UploadThenListAndRead == [](C1_State) /\ [][C1_Step]_vars

\* a ReadS3Key has returned the content of a key that was uploaded with a
\* content type: only keys that hold an upload have that content
C1_Witness ==
    /\ Simulated
    /\ last.type = "ReadS3Key"
    /\ last.outcome = "ok"
    /\ \E b \in Buckets, k \in FullKeys :
          /\ Intact(b, k)
          /\ uploaded[<<b, k>>] = last.result
          /\ Current.s3_buckets[b][k].content_type # None
    /\ \A b \in DOMAIN Current.s3_buckets :
          \A k \in DOMAIN Current.s3_buckets[b] :
              Current.s3_buckets[b][k].content = last.result => Intact(b, k)


-----------------------------------------------------------------------------

Present(s, b, k) == HasKey(s.s3_buckets, b) /\ HasKey(s.s3_buckets[b], k)

\* C2, for one performed DeleteS3Keys
C2_Deleted(intent) ==
    /\ last'.outcome = "ok"
    /\ \A k \in Targets(intent.prefix, intent.keys) :
          \A p \in PrefixesOf(k) :
              SliceFrom(k, Len(p)) \notin
                  list_s3_keys(Current', Listing(intent.bucket, p)).result
    /\ (\A k \in Targets(intent.prefix, intent.keys) :
            ~Present(Current, intent.bucket, k)) => Current' = Current
    /\ delete_s3_keys(Current', intent).state = Current'

\* C2: in FakeAWS, after DeleteS3Keys(b, p, keys) no ListS3Keys on b reports
\* p + k for a k of keys; DeleteS3Keys of keys that are all absent already
\* succeeds and leaves the state equal to the state before it, so performing
\* the same DeleteS3Keys again changes nothing.
C2_DeleteThenAbsent ==
    [][Performed("DeleteS3Keys") => \A intent \in DeleteS3Keys :
          FakeAWS_perform_delete_s3_keys(intent) => C2_Deleted(intent)]_vars

\* a DeleteS3Keys has removed a key of the initial bucket
C2_Witness ==
    /\ Simulated
    /\ steps = 1
    /\ last.type = "DeleteS3Keys"
    /\ HasKey(Current.s3_buckets, "b1")
    /\ ~HasKey(Current.s3_buckets["b1"], ".js")

InitialSnapshots ==
    {FakeAWSState(a.routing_rules, a.s3_buckets) : a \in InitialArguments}

\* C3: the FakeAWSState that initial_state refers to has, after any sequence
\* of intents, the routing rules, bucket contents, error keys and
\* invalidations it was constructed with: performers replace FakeAWS.state,
\* they never change an instance.
C3_SnapshotNeverMutated ==
    /\ initial_state = 0
    /\ heap[initial_state] \in InitialSnapshots

\* the current state has moved away from the initial one, in its buckets
\* and in its error keys or invalidations
C3_Witness ==
    /\ Simulated
    /\ state # initial_state
    /\ Current.s3_buckets # heap[initial_state].s3_buckets
    /\ \/ Current.error_key # heap[initial_state].error_key
       \/ Current.cloudfront_invalidations
              # heap[initial_state].cloudfront_invalidations

\* C4, for one performed UpdateS3ErrorPage: what it returns, what performing
\* the same intent once more returns, and the error key after both
C4_Updated(intent) ==
    LET previous == GetOr(Current.error_key, intent.bucket, None)
        second == update_s3_error_page(Current', intent)
    IN  /\ last'.outcome = "ok"
        /\ last'.result =
               IF previous # error_key(intent) THEN previous ELSE None
        /\ second.outcome = "ok"
        /\ second.result = None
        /\ second.state.error_key[intent.bucket] = error_key(intent)
        /\ Current'.error_key[intent.bucket] = error_key(intent)

\* C4: of two consecutive UpdateS3ErrorPage intents with the same bucket and
\* target_prefix, the first returns the bucket's previous error key when it
\* differs from target_prefix + "error_pages/404.html" (None when it is the
\* same), the second returns None, and the bucket's error key is then
\* target_prefix + "error_pages/404.html".
C4_ErrorPageTwice ==
    [][Performed("UpdateS3ErrorPage") => \A intent \in UpdateS3ErrorPage :
          FakeAWS_perform_update_s3_error_page(intent) =>
              C4_Updated(intent)]_vars

\* an UpdateS3ErrorPage has returned the previous, different error key
C4_Witness ==
    /\ Simulated
    /\ last.type = "UpdateS3ErrorPage"
    /\ last.result # None

\* C5 as claimed: ListS3Keys on a bucket FakeAWS has no entry for returns
\* the empty set, UpdateS3ErrorPage on a bucket without an error key takes
\* the previous key to be None, and neither fails.
C5_AbsentReadsNeverFail ==
    [][/\ Performed("ListS3Keys") => \A intent \in ListS3Keys :
             FakeAWS_perform_list_s3_keys(intent)
                 /\ ~HasKey(Current.s3_buckets, intent.bucket) =>
                     last'.outcome = "ok" /\ last'.result = {}
       /\ Performed("UpdateS3ErrorPage") => \A intent \in UpdateS3ErrorPage :
             FakeAWS_perform_update_s3_error_page(intent)
                 /\ ~HasKey(Current.error_key, intent.bucket) =>
                     last'.outcome = "ok" /\ last'.result = None]_vars

\* C5, amended: ListS3Keys on a bucket FakeAWS has no entry for fails with a
\* KeyError and leaves the state as it was; UpdateS3ErrorPage on a bucket
\* without an error key takes the previous key to be None and succeeds.
C5_AbsentBucketListFails ==
    [][/\ Performed("ListS3Keys") => \A intent \in ListS3Keys :
             FakeAWS_perform_list_s3_keys(intent)
                 /\ ~HasKey(Current.s3_buckets, intent.bucket) =>
                     /\ last'.outcome = "KeyError"
                     /\ Current' = Current
       /\ Performed("UpdateS3ErrorPage") => \A intent \in UpdateS3ErrorPage :
             FakeAWS_perform_update_s3_error_page(intent)
                 /\ ~HasKey(Current.error_key, intent.bucket) =>
                     /\ last'.outcome = "ok"
                     /\ last'.result = None
                     /\ Current'.error_key[intent.bucket] =
                            error_key(intent)]_vars

\* a ListS3Keys has failed: only a missing bucket makes it fail
C5_Witness ==
    /\ Simulated
    /\ last.type = "ListS3Keys"
    /\ last.outcome = "KeyError"


\* C6: DownloadS3Key of a key the source bucket does not hold fails with a
\* KeyError with either dispatcher; the target path is then neither created
\* nor overwritten, and the FakeAWS state is unchanged.
C6_DownloadMissingKey ==
    [][Performed("DownloadS3Key") =>
          /\ \A intent \in DownloadS3Key :
                FakeAWS_perform_download_s3_key(intent)
                    /\ HasKey(Current.s3_buckets, intent.source_bucket)
                    /\ ~Present(Current, intent.source_bucket,
                                intent.source_key) =>
                        /\ last'.outcome = "KeyError"
                        /\ files' = files
                        /\ Current' = Current
          /\ \A intent \in DownloadS3Key :
                perform_download_s3_key(intent)
                    /\ HasKey(s3, intent.source_bucket)
                    /\ ~HasKey(s3[intent.source_bucket], intent.source_key) =>
                        /\ last'.outcome = "KeyError"
                        /\ files' = files
                        /\ s3' = s3
                        /\ Current' = Current]_vars

\* both buckets exist, so the DownloadS3Key that failed did so on a missing
\* key, and there is no target file
C6_Witness ==
    /\ Simulated
    /\ last.type = "DownloadS3Key"
    /\ last.outcome = "KeyError"
    /\ Buckets \subseteq DOMAIN Current.s3_buckets
    /\ files["f3"] = NoFile

invalidations == Current.cloudfront_invalidations

IsPrefix(p, q) == Len(p) <= Len(q) /\ SubSeq(q, 1, Len(p)) = p

\* C7: the invalidations of FakeAWS start empty; each performed
\* CreateCloudFrontInvalidation appends the intent itself at the end and no
\* other step changes the sequence, so the sequence of an earlier state is
\* a prefix of the sequence of a later one.
C7_InvalidationsAppendOnly ==
    /\ [](steps = 0 => invalidations = << >>)
    /\ [][/\ IsPrefix(invalidations, invalidations')
          /\ IF Performed("CreateCloudFrontInvalidation")
             THEN \A intent \in CreateCloudFrontInvalidation :
                      FakeAWS_perform_create_cloudfront_invalidation(intent)
                          => invalidations' = Append(invalidations, intent)
             ELSE invalidations' = invalidations]_vars

\* two different invalidations are recorded in the order they were made
C7_Witness ==
    /\ Simulated
    /\ Len(invalidations) = 2
    /\ invalidations[1].paths = <<"/y">>
    /\ invalidations[2].paths = <<"/x">>

\* every key of the list has the destination hold the same value as the
\* source, both read in state s
DestinationsEqualSources(s, before, intent) ==
    \A i \in 1..Len(intent.keys) :
        /\ Present(s, intent.destination_bucket,
                   intent.destination_prefix \o intent.keys[i])
        /\ s.s3_buckets[intent.destination_bucket]
               [intent.destination_prefix \o intent.keys[i]]
           = before.s3_buckets[intent.source_bucket]
               [intent.source_prefix \o intent.keys[i]]

IsDestination(intent, b, k) ==
    /\ b = intent.destination_bucket
    /\ k \in Targets(intent.destination_prefix, intent.keys)

\* C8 as claimed: after a successful CopyS3Keys of FakeAWS every destination
\* holds the value its source holds (then), and every source entry that is
\* not a destination of the same intent is unchanged.
C8_CopyEqualsSourceAfter ==
    [][Performed("CopyS3Keys") /\ last'.outcome = "ok" =>
          \A intent \in CopyS3Keys :
              FakeAWS_perform_copy_s3_keys(intent) =>
                  /\ DestinationsEqualSources(Current', Current', intent)
                  /\ \A k \in Targets(intent.source_prefix, intent.keys) :
                        ~IsDestination(intent, intent.source_bucket, k) =>
                            Current'.s3_buckets[intent.source_bucket][k] =
                                Current.s3_buckets[intent.source_bucket][k]
      ]_vars

\* C8, amended: after a successful CopyS3Keys of FakeAWS every destination
\* holds the value (content and content type) its source held before the
\* intent was performed, and every entry of every bucket that is not a
\* destination of the intent is unchanged.
C8_CopyEqualsSourceBefore ==
    [][Performed("CopyS3Keys") /\ last'.outcome = "ok" =>
          \A intent \in CopyS3Keys :
              FakeAWS_perform_copy_s3_keys(intent) =>
                  /\ DestinationsEqualSources(Current', Current, intent)
                  /\ \A b \in Buckets, k \in FullKeys \cup
                            Targets(intent.destination_prefix, intent.keys) :
                        ~IsDestination(intent, b, k) =>
                            /\ Present(Current', b, k) = Present(Current, b, k)
                            /\ Present(Current, b, k) =>
                                   Current'.s3_buckets[b][k] =
                                       Current.s3_buckets[b][k]
      ]_vars

\* a CopyS3Keys has copied a value that carries a content type: "aa.js" is
\* a key only CopyS3Keys writes
C8_Witness ==
    /\ Simulated
    /\ last.type = "CopyS3Keys"
    /\ last.outcome = "ok"
    /\ \E b \in Buckets :
          /\ Present(Current, b, "aa.js")
          /\ Current.s3_buckets[b]["aa.js"].content_type # None

\* the content of every object of a store
ContentsOf(store) ==
    [b \in DOMAIN store |-> [k \in DOMAIN store[b] |-> store[b][k].content]]

\* C9: the bucket contents FakeAWS has after CopyS3Keys are those that
\* perform_copy_s3_keys leaves in a remote store with the same objects:
\* the keys copied one at a time in list order, each copy reading its
\* source as it is at that moment.
C9_CopyMirrorsBoto ==
    [][Performed("CopyS3Keys") =>
          \A intent \in CopyS3Keys :
              FakeAWS_perform_copy_s3_keys(intent)
                  /\ HasKey(Current.s3_buckets, intent.source_bucket)
                  /\ HasKey(Current.s3_buckets, intent.destination_bucket) =>
                      ContentsOf(Current'.s3_buckets) =
                          ContentsOf(boto_copy_s3_keys(Current.s3_buckets,
                                                       intent).store)]_vars

\* C10: once a ReadS3Key has finished, with the content or with the failure
\* of the DownloadS3Key it yielded, its temporary file does not exist; and
\* no step of ReadS3Key changes the FakeAWS state.
C10_ReadRemovesTemporary ==
    /\ [](pc = "idle" => files[TempPath] = NoFile)
    /\ [][/\ perform_read_s3_key_finally =>
                files'[frame.target_file] = NoFile
          /\ pc # "idle" \/ pc' # "idle" =>
                heap' = heap /\ state' = state]_vars

\* a ReadS3Key has returned content, which it read from its temporary file,
\* and the file is gone
C10_Witness ==
    /\ last.type = "ReadS3Key"
    /\ last.outcome = "ok"
    /\ last.result \in Contents
    /\ pc = "idle"
    /\ files[TempPath] = NoFile

-----------------------------------------------------------------------------

\* every key a bucket of s or of s2 holds, and every key an intent can name
KeysOf(s, s2) ==
    FullKeys \cup UNION {DOMAIN s.s3_buckets[b] : b \in DOMAIN s.s3_buckets}
             \cup UNION {DOMAIN s2.s3_buckets[b] : b \in DOMAIN s2.s3_buckets}

\* s2 differs from s at most in the entries ks of bucket b
OnlyEntries(s, s2, b, ks) ==
    /\ s2.routing_rules = s.routing_rules
    /\ s2.error_key = s.error_key
    /\ s2.cloudfront_invalidations = s.cloudfront_invalidations
    /\ \A bb \in Buckets \ {b} :
          HasKey(s2.s3_buckets, bb) = HasKey(s.s3_buckets, bb)
    /\ \A bb \in Buckets, k \in KeysOf(s, s2) :
          ~(bb = b /\ k \in ks) =>
              /\ Present(s2, bb, k) = Present(s, bb, k)
              /\ Present(s, bb, k) =>
                     s2.s3_buckets[bb][k] = s.s3_buckets[bb][k]

\* C16: every performer of FakeAWS changes only the part of the state its
\* intent names.  UpdateS3RoutingRules sets routing_rules[bucket] to the given
\* rules and changes nothing else; UpdateS3ErrorPage changes only
\* error_key[bucket]; CreateCloudFrontInvalidation only the invalidations;
\* UploadToS3 only the entry target_key of target_bucket; DeleteS3Keys only
\* the entries prefix + key of bucket; CopyS3Keys only the entries
\* destination_prefix + key of destination_bucket; ListS3Keys and
\* DownloadS3Key leave the state as it is.
C16_OnlyTheNamedPart ==
    [][/\ Performed("UpdateS3RoutingRules") =>
             \A intent \in UpdateS3RoutingRules :
                 FakeAWS_perform_update_s3_routing_rules(intent) =>
                     /\ Current'.routing_rules[intent.bucket] =
                            intent.routing_rules
                     /\ \A b \in Buckets \ {intent.bucket} :
                           /\ HasKey(Current'.routing_rules, b) =
                                  HasKey(Current.routing_rules, b)
                           /\ HasKey(Current.routing_rules, b) =>
                                  Current'.routing_rules[b] =
                                      Current.routing_rules[b]
                     /\ [Current' EXCEPT !.routing_rules = EmptyMap] =
                            [Current EXCEPT !.routing_rules = EmptyMap]
       /\ Performed("UpdateS3ErrorPage") =>
             \A intent \in UpdateS3ErrorPage :
                 FakeAWS_perform_update_s3_error_page(intent) =>
                     /\ \A b \in Buckets \ {intent.bucket} :
                           /\ HasKey(Current'.error_key, b) =
                                  HasKey(Current.error_key, b)
                           /\ HasKey(Current.error_key, b) =>
                                  Current'.error_key[b] = Current.error_key[b]
                     /\ [Current' EXCEPT !.error_key = EmptyMap] =
                            [Current EXCEPT !.error_key = EmptyMap]
       /\ Performed("CreateCloudFrontInvalidation") /\ Simulated =>
             [Current' EXCEPT !.cloudfront_invalidations = << >>] =
                 [Current EXCEPT !.cloudfront_invalidations = << >>]
       /\ Performed("UploadToS3") =>
             \A intent \in UploadToS3 :
                 FakeAWS_perform_upload_s3_key(intent) =>
                     OnlyEntries(Current, Current', intent.target_bucket,
                                 {intent.target_key})
       /\ Performed("DeleteS3Keys") =>
             \A intent \in DeleteS3Keys :
                 FakeAWS_perform_delete_s3_keys(intent) =>
                     OnlyEntries(Current, Current', intent.bucket,
                                 Targets(intent.prefix, intent.keys))
       /\ Performed("CopyS3Keys") =>
             \A intent \in CopyS3Keys :
                 FakeAWS_perform_copy_s3_keys(intent) =>
                     OnlyEntries(Current, Current', intent.destination_bucket,
                                 Targets(intent.destination_prefix,
                                         intent.keys))
       /\ (Performed("ListS3Keys") \/ Performed("DownloadS3Key")) =>
             Current' = Current]_vars

\* an UpdateS3RoutingRules has replaced the rules of "b1" in a state whose
\* buckets an earlier intent had changed
C16_Witness ==
    /\ Simulated
    /\ last.type = "UpdateS3RoutingRules"
    /\ Current.routing_rules["b1"] = "r2"
    /\ Current.s3_buckets # heap[initial_state].s3_buckets

\* C17: when the error key of the bucket is already target_prefix +
\* "error_pages/404.html", UpdateS3ErrorPage returns None and writes nothing:
\* perform_update_s3_error_page does not persist the website configuration,
\* and the state of FakeAWS after it equals the state before it.
C17_SameErrorKeyNoWrite ==
    [][Performed("UpdateS3ErrorPage") =>
          \A intent \in UpdateS3ErrorPage :
              /\ FakeAWS_perform_update_s3_error_page(intent)
                     /\ GetOr(Current.error_key, intent.bucket, None) =
                            error_key(intent) =>
                         /\ last'.outcome = "ok"
                         /\ last'.result = None
                         /\ Current' = Current
              /\ perform_update_s3_error_page(intent)
                     /\ HasKey(website.error_key, intent.bucket)
                     /\ website.error_key[intent.bucket] = error_key(intent) =>
                         /\ last'.outcome = "ok"
                         /\ last'.result = None
                         /\ website' = website]_vars

\* with boto, two intents were performed, the last an UpdateS3ErrorPage that
\* returned None, and the configuration, which holds an error key, was
\* persisted once
C17_Witness ==
    /\ ~Simulated
    /\ steps = 2
    /\ last.type = "UpdateS3ErrorPage"
    /\ last.outcome = "ok"
    /\ last.result = None
    /\ website.error_key["b1"] # None
    /\ website.writes = 1

\* C18: ListS3Keys of FakeAWS returns exactly the keys of the bucket that
\* start with the prefix as a plain string, each without its first
\* len(prefix) characters: every such key is reported, everything reported
\* comes from such a key, two keys never give the same suffix, and the empty
\* prefix reports the keys as they are.
C18_ListExactlyStripped ==
    [][Performed("ListS3Keys") /\ last'.outcome = "ok" =>
          \A intent \in ListS3Keys :
              FakeAWS_perform_list_s3_keys(intent) =>
                  LET bucket == Current.s3_buckets[intent.bucket]
                      matching == {k \in DOMAIN bucket :
                                      startswith(k, intent.prefix)}
                  IN  /\ \A k \in matching :
                            \E x \in last'.result : intent.prefix \o x = k
                      /\ \A x \in last'.result :
                            intent.prefix \o x \in matching
                      /\ Cardinality(last'.result) = Cardinality(matching)
                      /\ intent.prefix = "" => last'.result = DOMAIN bucket
      ]_vars

\* the first intent performed listed "b1", which holds ".js" and "a.js",
\* with prefix "a": the key "a.js" is reported as ".js"
C18_Witness ==
    /\ Simulated
    /\ steps = 1
    /\ last.type = "ListS3Keys"
    /\ last.outcome = "ok"
    /\ last.result = {".js"}

\* the indices of the keys whose source the bucket does not hold
MissingSources(s, intent) ==
    {i \in 1..Len(intent.keys) :
        ~Present(s, intent.source_bucket,
                 intent.source_prefix \o intent.keys[i])}

\* C19: CopyS3Keys of FakeAWS is not atomic.  When the source of the i-th
\* key is the first that is missing, the intent fails with a KeyError, the
\* destinations of the keys before i hold the copies and no other entry has
\* changed; when the source bucket is missing it fails with a KeyError and
\* the state is unchanged.
C19_CopyNotAtomic ==
    [][Performed("CopyS3Keys") =>
          \A intent \in CopyS3Keys :
              FakeAWS_perform_copy_s3_keys(intent) =>
                  /\ ~HasKey(Current.s3_buckets, intent.source_bucket) =>
                         last'.outcome = "KeyError" /\ Current' = Current
                  /\ HasKey(Current.s3_buckets, intent.source_bucket)
                         /\ MissingSources(Current, intent) # {} =>
                         LET i == CHOOSE m \in MissingSources(Current, intent) :
                                      \A n \in MissingSources(Current, intent) :
                                          m <= n
                             copied == {intent.destination_prefix
                                            \o intent.keys[j] : j \in 1..(i - 1)}
                         IN  /\ last'.outcome = "KeyError"
                             /\ \A j \in 1..(i - 1) :
                                   /\ Present(Current',
                                              intent.destination_bucket,
                                              intent.destination_prefix
                                                  \o intent.keys[j])
                                   /\ Current'.s3_buckets
                                          [intent.destination_bucket]
                                          [intent.destination_prefix
                                               \o intent.keys[j]] =
                                      Current.s3_buckets
                                          [intent.source_bucket]
                                          [intent.source_prefix
                                               \o intent.keys[j]]
                             /\ OnlyEntries(Current, Current',
                                            intent.destination_bucket, copied)
      ]_vars

\* the first intent performed was a CopyS3Keys that failed with a KeyError
\* after it had changed the buckets
C19_Witness ==
    /\ Simulated
    /\ steps = 1
    /\ last.type = "CopyS3Keys"
    /\ last.outcome = "KeyError"
    /\ Current.s3_buckets # heap[initial_state].s3_buckets

-----------------------------------------------------------------------------
(* Properties of the composite performers, checked under SpecComposite *)

\* the step is the iteration of the upload loop that r describes
UploadStep(r) ==
    /\ heap'[state'] = r.state
    /\ s3' = r.store
    /\ IF r.outcome = "continue"
       THEN frame' = r.frame
       ELSE pc' = "idle" /\ last'.outcome = r.outcome

\* the step is the iteration of the download loop that r describes
DownloadStep(r) ==
    /\ files' = r.files
    /\ IF r.outcome = "continue"
       THEN frame' = r.frame
       ELSE pc' = "idle" /\ last'.outcome = r.outcome

\* the path a relative path names below a directory
Resolved(directory, relative) == abspath(join(directory, normpath(relative)))

\* the iteration issued one more intent
IssuedOne(fr, r) == Len(r.frame.issued) = Len(fr.issued) + 1

\* C11: every iteration of UploadToS3Recursively issues an UploadToS3 exactly
\* when the child resolves under source_path to a regular file, with target
\* key target_key + "/" + child and that file; a child under source_path that
\* is missing or not a regular file is skipped without error; with FakeAWS
\* the bucket then holds the key with the file's content and nothing else of
\* the state changes.
C11_UploadsExactlyFilesUnderSource ==
    [][pc = "upload_loop" =>
          \A child \in frame.remaining :
              \A r \in upload_iteration(dispatcher, heap[state], s3, files,
                                        frame, child) :
                  UploadStep(r) =>
                      LET intent == frame.intent
                          path == Resolved(intent.source_path, child)
                          under == Under(intent.source_path, path)
                          regular == under /\ isfile(files, path)
                          key == intent.target_key \o "/" \o child
                      IN  /\ regular =>
                                /\ IssuedOne(frame, r)
                                /\ LET sub == r.frame.issued[
                                                  Len(r.frame.issued)]
                                   IN  /\ sub.type = "UploadToS3"
                                       /\ sub.target_bucket =
                                              intent.target_bucket
                                       /\ sub.target_key = key
                                       /\ sub.file = path
                          /\ ~regular => ~IssuedOne(frame, r)
                          /\ under /\ ~regular => r.outcome = "continue"
                          /\ dispatcher = get_dispatcher =>
                                heap'[state'] =
                                    IF regular
                                    THEN TransformSetKey(
                                             heap[state],
                                             intent.target_bucket, key,
                                             Plain(files[path]))
                                    ELSE heap[state]]_vars

\* C12: every iteration of DownloadS3KeyRecursively, for a listed key that
\* ends with one of filter_extensions and resolves under target_path, issues
\* one DownloadS3Key whose source_key is the key that was listed,
\* source_prefix + "/" + the listed suffix; an iteration never issues a
\* DownloadS3Key with another source_key, and none for a key that does not
\* end with one of filter_extensions.
C12_DownloadsTheListedKey ==
    [][pc = "download_loop" =>
          \A key \in frame.remaining :
              \A r \in download_iteration(dispatcher, heap[state], s3, files,
                                          frame, key) :
                  DownloadStep(r) =>
                      LET intent == frame.intent
                          wanted == endswith_any(key,
                                                 intent.filter_extensions)
                          under == Under(intent.target_path,
                                         Resolved(intent.target_path, key))
                      IN  /\ wanted /\ under => IssuedOne(frame, r)
                          /\ ~wanted => ~IssuedOne(frame, r)
                          /\ IssuedOne(frame, r) =>
                                LET sub == r.frame.issued[
                                               Len(r.frame.issued)]
                                IN  /\ sub.type = "DownloadS3Key"
                                    /\ sub.source_bucket =
                                           intent.source_bucket
                                    /\ sub.source_key =
                                           intent.source_prefix \o "/"
                                               \o key]_vars

\* the filesystem the DownloadS3Key of an iteration is performed on: the
\* parent of its target path has been made if it was missing
Prepared(fs, sub) ==
    IF exists(fs, parent(sub.target_path))
    THEN fs ELSE makedirs(fs, parent(sub.target_path))

\* C13: a composite performs the intents it yields one at a time; when one
\* of them fails the composite ends at once with that failure as its own,
\* nothing more is issued, and what the earlier ones did stays: the files
\* the earlier DownloadS3Key wrote, the keys the earlier UploadToS3 stored.
C13_FailureStopsWithoutRollback ==
    [][/\ pc = "download_loop" =>
             \A key \in frame.remaining :
                 \A r \in download_iteration(dispatcher, heap[state], s3,
                                             files, frame, key) :
                     DownloadStep(r) =>
                         /\ Len(r.frame.issued) <= Len(frame.issued) + 1
                         /\ IssuedOne(frame, r) =>
                               LET sub == r.frame.issued[Len(r.frame.issued)]
                               IN  \E d \in PerformDownload(
                                                dispatcher, heap[state], s3,
                                                Prepared(files, sub), sub) :
                                       /\ d.files = r.files
                                       /\ (d.outcome = "ok") =
                                              (r.outcome = "continue")
                                       /\ d.outcome # "ok" =>
                                              r.outcome = d.outcome
                         /\ r.outcome # "continue" =>
                               /\ pc' = "idle"
                               /\ frame' = NoFrame
                               /\ last'.type = frame.intent.type
                               /\ last'.outcome = r.outcome
                               /\ \A i \in 1..Len(frame.issued) :
                                      frame.issued[i].type = "DownloadS3Key"
                                          => files'[frame.issued[i]
                                                        .target_path]
                                             = files[frame.issued[i]
                                                         .target_path]
       /\ pc = "upload_loop" =>
             \A child \in frame.remaining :
                 \A r \in upload_iteration(dispatcher, heap[state], s3,
                                           files, frame, child) :
                     UploadStep(r) =>
                         /\ Len(r.frame.issued) <= Len(frame.issued) + 1
                         /\ r.outcome # "continue" =>
                               /\ pc' = "idle"
                               /\ frame' = NoFrame
                               /\ last'.type = frame.intent.type
                               /\ last'.outcome = r.outcome
                               /\ s3' = s3
                               /\ heap'[state'] = heap[state]
       /\ pc = "idle" => frame = NoFrame]_vars

\* a DownloadS3KeyRecursively of two keys ended with the failure of its
\* second download: the file of the first is in place, the second is partial
C13_Witness ==
    /\ pc = "idle"
    /\ last.type = "DownloadS3KeyRecursively"
    /\ last.outcome = "S3ResponseError"
    /\ files["/t/x.js"] = RemoteContent("a/x.js")
    /\ files["/t/y.css"] = Truncated

C15_DownloadStaysUnderTarget ==
    [][pc = "download_loop" =>
          \A key \in frame.remaining :
              \A r \in download_iteration(dispatcher, heap[state], s3, files,
                                          frame, key) :
                  DownloadStep(r) =>
                      LET intent == frame.intent
                          under == Under(intent.target_path,
                                         Resolved(intent.target_path, key))
                      IN  /\ \A p \in Tree :
                                 ~Under(intent.target_path, p)
                                     => files'[p] = files[p]
                          /\ (~under /\ endswith_any(
                                            key, intent.filter_extensions))
                                 => /\ r.outcome # "continue"
                                    /\ ~IssuedOne(frame, r)
                                    /\ files' = files]_vars

\* the intent types whose performer is the same function in both dispatchers
SharedTypes == {"DownloadS3KeyRecursively", "UploadToS3Recursively",
                "ReadS3Key"}

\* C20: boto_dispatcher and FakeAWS.get_dispatcher() each map every one of
\* the eleven intent types to one performer; the performers of
\* DownloadS3KeyRecursively, UploadToS3Recursively and ReadS3Key are the same
\* in both and those of the other types are not; and every intent a
\* composite yields is performed by the performer that the dispatcher of the
\* composite gives for it: FakeAWS' performers on the state of FakeAWS, or
\* the boto performers on the remote store.
C20_TotalAndSharedDispatchers ==
    /\ [](/\ Cardinality(IntentTypes) = 11
          /\ DOMAIN boto_dispatcher = IntentTypes
          /\ DOMAIN get_dispatcher = IntentTypes
          /\ \A type \in IntentTypes :
                /\ Performer(dispatcher, [type |-> type]) # None
                /\ (boto_dispatcher[type] = get_dispatcher[type])
                       = (type \in SharedTypes))
    /\ [][/\ \A intent \in DownloadS3KeyRecursively :
                perform_download_s3_key_recursively(intent) =>
                    LET sub == [type |-> "ListS3Keys",
                                bucket |-> intent.source_bucket,
                                prefix |-> intent.source_prefix \o "/"]
                        r == IF dispatcher = get_dispatcher
                             THEN list_s3_keys(heap[state], sub)
                             ELSE boto_list_s3_keys(s3, sub)
                    IN  IF r.outcome = "ok"
                        THEN frame'.remaining = r.result
                        ELSE last'.outcome = r.outcome
          /\ pc = "download_loop" =>
                \A key \in frame.remaining :
                    \A r \in download_iteration(dispatcher, heap[state], s3,
                                                files, frame, key) :
                        DownloadStep(r) /\ IssuedOne(frame, r) =>
                            LET sub == r.frame.issued[Len(r.frame.issued)]
                                fs == Prepared(files, sub)
                            IN  IF dispatcher = get_dispatcher
                                THEN files' = download_s3_key(
                                                  heap[state], fs, sub).files
                                ELSE files' \in
                                         {d.files :
                                             d \in boto_download_s3_key(
                                                       s3, fs, sub)}
          /\ pc = "upload_loop" =>
                \A child \in frame.remaining :
                    \A r \in upload_iteration(dispatcher, heap[state], s3,
                                              files, frame, child) :
                        UploadStep(r) /\ IssuedOne(frame, r) =>
                            LET sub == r.frame.issued[Len(r.frame.issued)]
                            IN  IF dispatcher = get_dispatcher
                                THEN /\ s3' = s3
                                     /\ heap'[state'] =
                                            upload_s3_key(heap[state], files,
                                                          sub).state
                                ELSE /\ heap' = heap /\ state' = state
                                     /\ s3' \in
                                            {u.store :
                                                u \in boto_upload_s3_key(
                                                          s3, files, sub)}
         ]_vars

\* a DownloadS3KeyRecursively performed with boto_dispatcher fetched the
\* object of the remote store, which differs from the one FakeAWS holds
C20_Witness ==
    /\ dispatcher = boto_dispatcher
    /\ pc = "idle"
    /\ last.type = "DownloadS3KeyRecursively"
    /\ last.outcome = "ok"
    /\ files["/t/x.js"] = RemoteContent("a/x.js")
    /\ HasKey(heap[state].s3_buckets["b1"], "a/x.js")
    /\ heap[state].s3_buckets["b1"]["a/x.js"].content # files["/t/x.js"]

=============================================================================
